---- MODULE Spec2Model ----
(***************************************************************************)
(* Model of src/trade_graph.py: the TradeGraph class.                      *)
(*                                                                         *)
(*   TradeGraph.__init__  builds a directed weighted graph from trade rows *)
(*   plot_export_restriction_scenario  resets the per-node deficits,       *)
(*       applies the scenario's export reductions, derives the relative    *)
(*       deficits and the global shortfall.                                *)
(*                                                                         *)
(* Numbers are exact rationals <<n, d>> in lowest terms (d > 0).  The      *)
(* inputs are small integers and dyadic fractions, for which Python's      *)
(* float sums, products and halvings are exact as well.  A division by     *)
(* zero raises ZeroDivisionError, as Python's int and float do.            *)
(***************************************************************************)
EXTENDS Integers, Sequences, FiniteSets, TLC

VARIABLES
    trade_data,             \* the rows handed to TradeGraph.__init__
    G,                      \* self.G, the networkx DiGraph
    sum_of_trade,           \* self.sum_of_trade
    status,                 \* "new", "built", or the exception __init__ raised
    stdout,                 \* number of 'Unknown edge type' lines printed
    fresh,                  \* a second instance built from the same rows, never evaluated
    scenario,               \* argument of the last plot_export_restriction_scenario call
    outcome,                \* "none", "ok", or the exception that call raised
    total_deficits,         \* local of the last call (line 200)
    total_relative_deficit, \* local of the last call (line 201)
    runs                    \* number of evaluations made on this instance (capped)

vars == <<trade_data, G, sum_of_trade, status, stdout, fresh, scenario, outcome,
          total_deficits, total_relative_deficit, runs>>

----------------------------------------------------------------------------
(* Bounds *)

MaxRows == 3

MaxEvalRows == 3

MaxRuns == 2

----------------------------------------------------------------------------
(* Exact rational arithmetic *)

RECURSIVE GCD(_, _)
GCD(a, b) == IF b = 0 THEN a ELSE GCD(b, a % b)

Abs(x) == IF x < 0 THEN -x ELSE x

Rat(n, d) ==
    LET s == IF d < 0 THEN -1 ELSE 1
        g == GCD(Abs(n), Abs(d))
    IN  <<(s * n) \div g, (s * d) \div g>>

Zero == <<0, 1>>

NoValue == <<0, 0>>

RAdd(x, y) == Rat(x[1] * y[2] + y[1] * x[2], x[2] * y[2])

RSub(x, y) == Rat(x[1] * y[2] - y[1] * x[2], x[2] * y[2])

RMul(x, y) == Rat(x[1] * y[1], x[2] * y[2])

RDiv(x, y) == Rat(x[1] * y[2], x[2] * y[1])

RLeq(x, y) == x[1] * y[2] <= y[1] * x[2]

RECURSIVE RSum(_, _)
RSum(f, S) ==
    IF S = {} THEN Zero
    ELSE LET k == CHOOSE k \in S : TRUE
         IN  RAdd(f[k], RSum(f, S \ {k}))

EmptyFn == [x \in {} |-> Zero]

Put(f, k, v) == [x \in DOMAIN f \cup {k} |-> IF x = k THEN v ELSE f[x]]

----------------------------------------------------------------------------
(* Country registry *)

name_to_iso_alpha == [n \in {"A", "B"} |-> IF n = "A" THEN "AAA" ELSE "BBB"]

name_to_centroid == [n \in {"A", "B"} |-> IF n = "A" THEN <<10, 20>> ELSE <<30, 40>>]

get_iso_alpha_from_country_name(name) == name_to_iso_alpha[name]

get_lon_lat_from_country_name(name) == name_to_centroid[name]

----------------------------------------------------------------------------
(* The graph: G.nodes in insertion order, one function per node attribute   *)
(* (defined on the nodes that carry the attribute), and the edge amounts.  *)

SeqToSet(s) == {s[i] : i \in 1..Len(s)}

EmptyGraph ==
    [nodes |-> <<>>, name |-> EmptyFn, iso |-> EmptyFn, centroid |-> EmptyFn,
     deficit |-> EmptyFn, deficit_relative |-> EmptyFn, amount |-> EmptyFn]

has_node(g, n) == n \in SeqToSet(g.nodes)

has_edge(g, u, v) == <<u, v>> \in DOMAIN g.amount

\* G.add_node(country, name=..., iso=..., centroid=..., deficit=0, deficit_relative=0)
add_node(g, country) ==
    [g EXCEPT !.nodes = IF has_node(g, country) THEN @ ELSE Append(@, country),
              !.name = Put(@, country, country),
              !.iso = Put(@, country, get_iso_alpha_from_country_name(country)),
              !.centroid = Put(@, country, get_lon_lat_from_country_name(country)),
              !.deficit = Put(@, country, Zero),
              !.deficit_relative = Put(@, country, Zero)]

\* G.add_edge(u, v, amount=a): networkx adds a missing endpoint as a node
\* without attributes.
add_edge(g, u, v, a) ==
    LET n1 == IF has_node(g, u) THEN g.nodes ELSE Append(g.nodes, u)
        n2 == IF v \in SeqToSet(n1) THEN n1 ELSE Append(n1, v)
    IN  [g EXCEPT !.nodes = n2, !.amount = Put(@, <<u, v>>, a)]

\* A faulty variant: the later report replaces the recorded amount.
get_combined_trade_estimate_last(g, u, v, new_amount) == new_amount

get_combined_trade_estimate(g, u, v, new_amount) ==
    RDiv(RAdd(g.amount[<<u, v>>], new_amount), <<2, 1>>)

\* The edge of a row; <<>> stands for the None the unknown-element branch returns.
create_nx_edge_from_trade_row(row) ==
    IF row.element = "Import Quantity" THEN <<row.partner, row.reporter>>
    ELSE IF row.element = "Export Quantity" THEN <<row.reporter, row.partner>>
    ELSE <<>>

\* trade_data.partner.unique(): the partners in order of first appearance
RECURSIVE unique_partners(_, _, _)
unique_partners(rows, i, acc) ==
    IF i > Len(rows) THEN acc
    ELSE unique_partners(rows, i + 1,
            IF rows[i].partner \in SeqToSet(acc) THEN acc
            ELSE Append(acc, rows[i].partner))

\* Lines 55-73: the node loop.  A registry miss raises KeyError.
RECURSIVE add_nodes(_, _, _)
add_nodes(g, countries, i) ==
    IF i > Len(countries) THEN [G |-> g, status |-> "built"]
    ELSE IF countries[i] = "Unspecified Area" THEN add_nodes(g, countries, i + 1)
    ELSE IF countries[i] \notin DOMAIN name_to_iso_alpha
            \/ countries[i] \notin DOMAIN name_to_centroid
         THEN [G |-> g, status |-> "KeyError"]
    ELSE add_nodes(add_node(g, countries[i]), countries, i + 1)

\* Line 80, a faulty variant: only the source of the edge is compared.
edge_source_is_unspecified_area(edge) == edge[1] = "Unspecified Area"

\* Line 80: 'Unspecified Area' in edge
edge_has_unspecified_area(edge) == "Unspecified Area" \in SeqToSet(edge)

\* Lines 76-89: the edge loop.  An unknown element prints a line and yields
\* None, and the membership test on None raises TypeError.
RECURSIVE add_edges(_, _, _, _)
add_edges(g, rows, i, printed) ==
    IF i > Len(rows) THEN [G |-> g, status |-> "built", stdout |-> printed]
    ELSE LET row == rows[i]
             edge == create_nx_edge_from_trade_row(row)
         IN  IF edge = <<>>
             THEN [G |-> g, status |-> "TypeError", stdout |-> printed + 1]
             ELSE IF edge_has_unspecified_area(edge)
             THEN add_edges(g, rows, i + 1, printed)
             ELSE IF has_edge(g, edge[1], edge[2])
             THEN add_edges(
                    add_edge(g, edge[1], edge[2],
                        get_combined_trade_estimate(g, edge[1], edge[2], <<row.value, 1>>)),
                    rows, i + 1, printed)
             ELSE add_edges(add_edge(g, edge[1], edge[2], <<row.value, 1>>),
                            rows, i + 1, printed)

\* TradeGraph.__init__ as a whole.  sum_of_trade exists only when it returns.
TradeGraph_init(rows) ==
    LET n == add_nodes(EmptyGraph, unique_partners(rows, 1, <<>>), 1)
        e == add_edges(n.G, rows, 1, 0)
    IN  IF n.status # "built"
        THEN [G |-> n.G, status |-> n.status, stdout |-> 0, sum_of_trade |-> NoValue]
        ELSE [G |-> e.G, status |-> e.status, stdout |-> e.stdout,
              sum_of_trade |-> IF e.status = "built"
                               THEN RSum(e.G.amount, DOMAIN e.G.amount)
                               ELSE NoValue]

----------------------------------------------------------------------------
(* Inputs *)

Names == {"A", "B", "Unspecified Area"}

Elements == {"Import Quantity", "Export Quantity", "Other"}

Values == {0, 1}

\* Rows of the construction specification: two countries and the sentinel,
\* the two recognised elements and an unrecognised one.  A row names two
\* different parties, and the sentinel is paired with "A".
BuildRows ==
    {r \in [partner : Names, reporter : Names, element : Elements, value : Values] :
        /\ r.partner # r.reporter
        /\ "B" \in {r.partner, r.reporter} => "Unspecified Area" \notin {r.partner, r.reporter}}

SeqsUpTo(S, n) == UNION {[1..k -> S] : k \in 0..n}

\* Rows of the evaluation specification: two countries, self-trade included.
EvalRows ==
    [partner : {"A", "B"}, reporter : {"A", "B"},
     element : {"Import Quantity", "Export Quantity"}, value : Values]

\* Retained export fractions, in (0, 1]
Fractions == {<<1, 4>>, <<1, 1>>}

\* Scenario keys.  A key is unknown to a graph that was built without it.
Keys == {"A", "B"}

\* A scenario is a dict: <<source, export_fraction>> items in insertion
\* order, no key twice.
Scenarios ==
    {s \in SeqsUpTo(Keys \X Fractions, Cardinality(Keys)) :
        \A i, j \in 1..Len(s) : i # j => s[i][1] # s[j][1]}

----------------------------------------------------------------------------
(* Queries and the deficit computation *)

NodeSet(g) == SeqToSet(g.nodes)

in_edges(g, country) == {e \in DOMAIN g.amount : e[2] = country}

out_edges(g, country) == {e \in DOMAIN g.amount : e[1] = country}

get_export_dict(g, country) ==
    [p \in {e[2] : e \in out_edges(g, country)} |-> g.amount[<<country, p>>]]

get_import_dict(g, country) ==
    [p \in {e[1] : e \in in_edges(g, country)} |-> g.amount[<<p, country>>]]

get_import_sum(g, country) == RSum(g.amount, in_edges(g, country))

get_export_sum(g, country) == RSum(g.amount, out_edges(g, country))

\* A faulty variant: a deficit already on a node survives the reset.
reset_deficits_keeping(g) ==
    [g EXCEPT !.deficit = [n \in SeqToSet(g.nodes) |->
                              IF n \in DOMAIN g.deficit THEN g.deficit[n] ELSE Zero],
              !.deficit_relative = [n \in SeqToSet(g.nodes) |-> Zero]]

\* nx.set_node_attributes(G, 0, attr) sets the attribute on every node
reset_deficits(g) ==
    [g EXCEPT !.deficit = [n \in NodeSet(g) |-> Zero],
              !.deficit_relative = [n \in NodeSet(g) |-> Zero]]

\* A faulty variant: the reduction is added to the amount.
get_absolute_deficit_plus(g, source, partner, reduction) ==
    RAdd(g.amount[<<source, partner>>], reduction)

get_absolute_deficit(g, source, partner, reduction) ==
    RMul(g.amount[<<source, partner>>], reduction)

\* A faulty variant: the partner's deficit is overwritten, not accumulated.
apply_deficits_overwriting(g, source, reduction) ==
    [g EXCEPT !.deficit =
        [n \in DOMAIN g.deficit |->
            IF <<source, n>> \in DOMAIN g.amount
            THEN RMul(g.amount[<<source, n>>], reduction)
            ELSE g.deficit[n]]]

\* A faulty variant: the withheld share is also taken off the edge.
apply_deficits_depleting(g, source, reduction) ==
    [g EXCEPT !.deficit =
                [n \in DOMAIN g.deficit |->
                    IF <<source, n>> \in DOMAIN g.amount
                    THEN RAdd(g.deficit[n], RMul(g.amount[<<source, n>>], reduction))
                    ELSE g.deficit[n]],
              !.amount =
                [e \in DOMAIN g.amount |->
                    IF e[1] = source
                    THEN RSub(g.amount[e], RMul(g.amount[e], reduction))
                    ELSE g.amount[e]]]

\* One new deficit per partner of source, written back to the nodes.
apply_deficits(g, source, reduction) ==
    LET partners == {e[2] : e \in out_edges(g, source)}
    IN  [g EXCEPT !.deficit =
            [n \in DOMAIN g.deficit |->
                IF n \in partners
                THEN RAdd(g.deficit[n], get_absolute_deficit(g, source, n, reduction))
                ELSE g.deficit[n]]]

\* Lines 168-173: node by node in G.nodes order; a zero import sum raises
\* ZeroDivisionError and leaves the nodes after it untouched.
RECURSIVE update_relative_deficits(_, _)
update_relative_deficits(g, i) ==
    IF i > Len(g.nodes) THEN [G |-> g, outcome |-> "ok"]
    ELSE LET country == g.nodes[i]
             imports == get_import_sum(g, country)
         IN  IF imports = Zero
             THEN [G |-> g, outcome |-> "ZeroDivisionError"]
             ELSE update_relative_deficits(
                    [g EXCEPT !.deficit_relative =
                        Put(@, country,
                            RMul(RDiv(g.deficit[country], imports), <<100, 1>>))],
                    i + 1)

\* sum(self.list_node_attributes('deficit'))
sum_of_deficits(g) == RSum(g.deficit, DOMAIN g.deficit)

\* Lines 195-198: the scenario loop, in the dict's order.
RECURSIVE scenario_loop(_, _, _)
scenario_loop(g, scen, i) ==
    IF i > Len(scen) THEN [G |-> g, outcome |-> "ok"]
    ELSE IF ~has_node(g, scen[i][1])
         THEN [G |-> g, outcome |-> "ValueError"]
    ELSE scenario_loop(apply_deficits(g, scen[i][1], RSub(<<1, 1>>, scen[i][2])),
                       scen, i + 1)

\* Lines 191-203 of plot_export_restriction_scenario (the figure that follows
\* reads the graph and changes nothing).
plot_export_restriction_scenario(g, sot, scen) ==
    LET l == scenario_loop(reset_deficits(g), scen, 1)
        total == sum_of_deficits(l.G)
        u == update_relative_deficits(l.G, 1)
    IN  IF l.outcome # "ok"
        THEN [G |-> l.G, outcome |-> l.outcome,
              total_deficits |-> NoValue, total_relative_deficit |-> NoValue]
        ELSE IF sot = Zero
        THEN [G |-> l.G, outcome |-> "ZeroDivisionError",
              total_deficits |-> total, total_relative_deficit |-> NoValue]
        ELSE [G |-> u.G, outcome |-> u.outcome,
              total_deficits |-> total,
              total_relative_deficit |-> RMul(RDiv(total, sot), <<100, 1>>)]

----------------------------------------------------------------------------
(* Actions *)

\* TradeGraph(trade_data, ...) on a table of up to MaxRows rows
Construct ==
    /\ status = "new"
    /\ \E rows \in SeqsUpTo(BuildRows, MaxRows) :
         LET b == TradeGraph_init(rows)
         IN  /\ trade_data' = rows
             /\ G' = b.G
             /\ sum_of_trade' = b.sum_of_trade
             /\ status' = b.status
             /\ stdout' = b.stdout
             /\ fresh' = b.G
    /\ UNCHANGED <<scenario, outcome, total_deficits, total_relative_deficit, runs>>

\* graph.plot_export_restriction_scenario(scen)
Evaluate ==
    /\ status = "built"
    /\ runs < MaxRuns
    /\ \E scen \in Scenarios :
         LET r == plot_export_restriction_scenario(G, sum_of_trade, scen)
         IN  /\ G' = r.G
             /\ outcome' = r.outcome
             /\ total_deficits' = r.total_deficits
             /\ total_relative_deficit' = r.total_relative_deficit
             /\ scenario' = scen
    /\ runs' = runs + 1
    /\ UNCHANGED <<trade_data, sum_of_trade, status, stdout, fresh>>

\* Construction specification: before the constructor runs, then its result
\* for every table.
InitBuild ==
    /\ trade_data = <<>>
    /\ G = EmptyGraph
    /\ sum_of_trade = NoValue
    /\ status = "new"
    /\ stdout = 0
    /\ fresh = EmptyGraph
    /\ scenario = <<>>
    /\ outcome = "none"
    /\ total_deficits = NoValue
    /\ total_relative_deficit = NoValue
    /\ runs = 0

NextBuild == Construct

SpecBuild == InitBuild /\ [][NextBuild]_vars

\* Evaluation specification: an instance whose constructor returned, built
\* from up to MaxEvalRows rows (the object does not keep the rows), then up
\* to MaxRuns scenario evaluations on it.
Init ==
    \E rows \in SeqsUpTo(EvalRows, MaxEvalRows) :
        LET b == TradeGraph_init(rows)
        IN  /\ b.status = "built"
            /\ trade_data = <<>>
            /\ G = b.G
            /\ sum_of_trade = b.sum_of_trade
            /\ status = "built"
            /\ stdout = b.stdout
            /\ fresh = b.G
            /\ scenario = <<>>
            /\ outcome = "none"
            /\ total_deficits = NoValue
            /\ total_relative_deficit = NoValue
            /\ runs = 0

Next == Evaluate

Spec == Init /\ [][Next]_vars

----------------------------------------------------------------------------
(* Construction claims, checked under SpecBuild *)

Countries == Names \ {"Unspecified Area"}

Recognised == {"Import Quantity", "Export Quantity"}

\* The ordered pair a recognised row reports on: exporter, then importer.
RowPair(row) ==
    IF row.element = "Import Quantity" THEN <<row.partner, row.reporter>>
    ELSE <<row.reporter, row.partner>>

\* The values reported for an ordered pair, in input order.
Reports(rows, pair) ==
    SelectSeq(rows, LAMBDA r : r.element \in Recognised /\ RowPair(r) = pair)

RECURSIVE Pow2(_)
Pow2(n) == IF n = 0 THEN 1 ELSE 2 * Pow2(n - 1)

\* 2^(n-1) times the running pairwise mean of n reports, in closed form:
\* the first report once, the k-th report (k >= 2) with weight 2^(k-2).
RECURSIVE WeightedSum(_, _)
WeightedSum(r, k) ==
    IF k = 1 THEN r[1].value
    ELSE WeightedSum(r, k - 1) + r[k].value * Pow2(k - 2)

\* C4: the amount of an edge is the running pairwise mean of the reports for
\* its ordered pair, in input order: one report a gives a, two reports a, b
\* give (a+b)/2, three reports a, b, c give ((a+b)/2 + c)/2; a pair without a
\* report has no edge, and a pair has one amount however many reports it has.
C4_RunningPairwiseMean ==
    status = "built" =>
        \A u, v \in Countries :
            LET r == Reports(trade_data, <<u, v>>)
                n == Len(r)
            IN  IF n = 0 THEN ~has_edge(G, u, v)
                ELSE /\ has_edge(G, u, v)
                     /\ G.amount[<<u, v>>] = Rat(WeightedSum(r, n), Pow2(n - 1))
                     /\ n = 1 => G.amount[<<u, v>>] = <<r[1].value, 1>>
                     /\ n = 2 => G.amount[<<u, v>>] = Rat(r[1].value + r[2].value, 2)
                     /\ n = 3 => G.amount[<<u, v>>] =
                                    RDiv(RAdd(Rat(r[1].value + r[2].value, 2),
                                              <<r[3].value, 1>>), <<2, 1>>)

\* Three reports for one pair whose running pairwise mean is not their mean.
C4_Witness ==
    /\ status = "built"
    /\ \E u, v \in Countries :
         LET r == Reports(trade_data, <<u, v>>)
         IN  /\ Len(r) = 3
             /\ has_edge(G, u, v)
             /\ G.amount[<<u, v>>] # Rat(r[1].value + r[2].value + r[3].value, 3)

\* C5: a row with an unrecognised element is skipped with a diagnostic and
\* construction completes, every recognised row (sentinel rows aside) having
\* contributed its edge.
C5_UnknownElementIsSkipped ==
    (status # "new" /\ \E i \in 1..Len(trade_data) : trade_data[i].element \notin Recognised)
    => /\ status = "built"
       /\ stdout = Cardinality({i \in 1..Len(trade_data) :
                                    trade_data[i].element \notin Recognised})
       /\ \A j \in 1..Len(trade_data) :
            (/\ trade_data[j].element \in Recognised
             /\ "Unspecified Area" \notin {trade_data[j].partner, trade_data[j].reporter})
            => has_edge(G, RowPair(trade_data[j])[1], RowPair(trade_data[j])[2])

\* C6: after construction every node of the graph carries its resolved ISO
\* code and centroid and the two deficit fields.
C6_EveryNodeResolved ==
    status = "built" =>
        \A n \in SeqToSet(G.nodes) :
            /\ n \in DOMAIN G.iso /\ G.iso[n] = name_to_iso_alpha[n]
            /\ n \in DOMAIN G.centroid /\ G.centroid[n] = name_to_centroid[n]
            /\ n \in DOMAIN G.deficit
            /\ n \in DOMAIN G.deficit_relative

WithoutSentinel(rows) ==
    SelectSeq(rows, LAMBDA r : "Unspecified Area" \notin {r.partner, r.reporter})

\* C8: after construction the sentinel is no node and no endpoint of an edge,
\* and the edges and sum_of_trade are those of the table without the rows
\* that name the sentinel.
C8_NoUnspecifiedArea ==
    status = "built" =>
        /\ "Unspecified Area" \notin SeqToSet(G.nodes)
        /\ "Unspecified Area" \notin DOMAIN G.iso
        /\ \A e \in DOMAIN G.amount : e[1] # "Unspecified Area" /\ e[2] # "Unspecified Area"
        /\ LET c == TradeGraph_init(WithoutSentinel(trade_data))
           IN  /\ G.amount = c.G.amount
               /\ sum_of_trade = c.sum_of_trade

\* The sentinel as partner of one row and reporter of another, beside a real edge.
C8_Witness ==
    /\ status = "built"
    /\ \E i, j \in 1..Len(trade_data) :
         /\ trade_data[i].partner = "Unspecified Area"
         /\ trade_data[j].reporter = "Unspecified Area"
    /\ DOMAIN G.amount # {}
    /\ sum_of_trade # Zero

----------------------------------------------------------------------------
(* Evaluation claims, checked under Spec *)

\* C1: a call that raises the validation error leaves every node's deficit
\* and deficit_relative as they were before the call.
C1_NoPartialMutation ==
    [][outcome' = "ValueError" =>
          /\ G'.deficit = G.deficit
          /\ G'.deficit_relative = G.deficit_relative]_vars

\* C2: an evaluation of a valid scenario never faults on a division by zero,
\* and ends with deficit_relative = 0 on every country whose import sum is 0.
\* Stated for graphs that carry some trade, where the only zero divisor is a
\* country's import sum (on a graph without trade line 201 divides by a zero
\* sum_of_trade before any country is reached).
C2_ZeroImportsYieldZero ==
    (outcome # "none" /\ outcome # "ValueError" /\ sum_of_trade # Zero) =>
        /\ outcome = "ok"
        /\ \A n \in NodeSet(G) :
             get_import_sum(G, n) = Zero => G.deficit_relative[n] = Zero

\* C3: whatever was evaluated before, the node deficits, the relative
\* deficits, the global totals and the outcome after evaluating a scenario
\* are those of evaluating it on a freshly built instance.
C3_NoResidue ==
    runs >= 1 =>
        LET r == plot_export_restriction_scenario(fresh, sum_of_trade, scenario)
        IN  /\ G.deficit = r.G.deficit
            /\ G.deficit_relative = r.G.deficit_relative
            /\ total_deficits = r.total_deficits
            /\ total_relative_deficit = r.total_relative_deficit
            /\ outcome = r.outcome

\* A second evaluation on the same instance that left deficits.
C3_Witness ==
    /\ runs = 2
    /\ outcome = "ok"
    /\ \E n \in NodeSet(G) : G.deficit[n] # Zero /\ G.deficit_relative[n] # Zero

\* The export volume of the scenario's sources
RestrictedExports(g, scen) ==
    LET x == [i \in 1..Len(scen) |-> get_export_sum(g, scen[i][1])]
    IN  RSum(x, 1..Len(scen))

\* C7: the global absolute deficit is the sum of the nodes' deficits, is not
\* negative and is at most the export volume of the restricted sources.
C7_ConservationBound ==
    total_deficits # NoValue =>
        /\ total_deficits = sum_of_deficits(G)
        /\ RLeq(Zero, total_deficits)
        /\ RLeq(total_deficits, RestrictedExports(G, scenario))

\* A positive global deficit below the restricted export volume.
C7_Witness ==
    /\ outcome = "ok"
    /\ total_deficits # NoValue
    /\ total_deficits # Zero
    /\ total_deficits # RestrictedExports(G, scenario)

\* The deficit the scenario puts on a partner: over the scenario's sources
\* with an edge to it, amount * (1 - retained fraction).
ExpectedDeficit(g, scen, partner) ==
    LET hits == {i \in 1..Len(scen) : has_edge(g, scen[i][1], partner)}
        x == [i \in hits |-> RMul(g.amount[<<scen[i][1], partner>>],
                                  RSub(<<1, 1>>, scen[i][2]))]
    IN  RSum(x, hits)

Reverse(s) == [i \in 1..Len(s) |-> s[Len(s) + 1 - i]]

\* C9: once the scenario's sources are all applied, each country's deficit is
\* the sum over the sources with an edge to it of amount * (1 - retained
\* fraction) on the amounts as built, processing the sources in the opposite
\* order gives the same deficits, and a country no restricted source exports
\* to has deficit 0.
C9_AdditiveDeficits ==
    (outcome # "none" /\ outcome # "ValueError") =>
        /\ \A p \in NodeSet(G) :
             /\ G.deficit[p] = ExpectedDeficit(fresh, scenario, p)
             /\ (\A i \in 1..Len(scenario) : ~has_edge(G, scenario[i][1], p))
                    => G.deficit[p] = Zero
        /\ scenario_loop(reset_deficits(fresh), Reverse(scenario), 1).G.deficit = G.deficit

\* A successful evaluation in which two sources withhold from one partner.
C9_Witness ==
    /\ outcome = "ok"
    /\ Len(scenario) = 2
    /\ \E p \in NodeSet(G) :
         \A i \in 1..2 :
            /\ has_edge(G, scenario[i][1], p)
            /\ G.amount[<<scenario[i][1], p>>] # Zero
            /\ scenario[i][2] # <<1, 1>>

\* C10: evaluations leave the nodes, the edges and their amounts,
\* sum_of_trade and every node's name, iso and centroid as built, so the
\* import/export sums and maps read as on a never-evaluated instance.
C10_TopologyUnchanged ==
    /\ G.nodes = fresh.nodes
    /\ G.amount = fresh.amount
    /\ G.name = fresh.name
    /\ G.iso = fresh.iso
    /\ G.centroid = fresh.centroid
    /\ sum_of_trade = RSum(fresh.amount, DOMAIN fresh.amount)
    /\ \A c \in Keys :
         /\ get_import_sum(G, c) = get_import_sum(fresh, c)
         /\ get_export_sum(G, c) = get_export_sum(fresh, c)
         /\ get_import_dict(G, c) = get_import_dict(fresh, c)
         /\ get_export_dict(G, c) = get_export_dict(fresh, c)

\* Both kinds of call made on one instance: one that raised the validation
\* error after one that changed the deficits.
C10_Witness ==
    /\ runs = 2
    /\ outcome = "ValueError"
    /\ G.deficit # fresh.deficit
    /\ DOMAIN G.amount # {}

====
